---- MODULE Spec2Model ----
(***************************************************************************)
(* Model of ovirt.py, the oVirt dynamic inventory of MANTL: the            *)
(* configuration lookups, OVirtInventory.ip, OVirtInventory.hosts, the     *)
(* loop of OVirtInventory.inventory (one step per datacenter and one per   *)
(* role) and main's output.                                                *)
(*                                                                         *)
(* Inputs are drawn where the program consumes them: the section names at  *)
(* construction, a section's options when the loop reaches the section     *)
(* (ConfigParser is only asked about a section inside that section's       *)
(* iteration), the oVirt engine's answer at each query, args.host where    *)
(* main tests it.                                                          *)
(***************************************************************************)
EXTENDS Integers, Sequences, FiniteSets, TLC

VARIABLES
    datacenters,  \* self.datacenters: config.sections(), in file order
    roles,        \* the order in which _ROLES.keys() enumerates the roles
    pc,           \* "build" | "returned" | "printed" | "failed" ("ip" | "ip_done" in SpecIp)
    dcIdx,        \* position of the datacenter loop (line 191)
    roleIdx,      \* position of the role loop (line 203); 0: datacenter not begun
    section,      \* name and options of the section being processed
    data,         \* the dict built by inventory()
    output,       \* <<>>, then <<[host, printed]>>: args.host and what main printed
    raised,       \* the exception that ended the run, None without one
    query,        \* the query of the last vms.list call, None before the first
    ipVm,         \* SpecIp: the VM record ip() is called with
    ipAddr,       \* SpecIp: what ip() returned or raised
    log,          \* history: one record per call of hosts(); consul_dc is the
                  \* section's option, kept for the calls that resolved a host
    seen,         \* history: the VM records returned, as [state, addr, nicMissing]
    fetched,      \* history: number of VM records the engine has returned
    customised    \* history: number of sections read that are not the plain one

vars == <<datacenters, roles, pc, dcIdx, roleIdx, section, data, output, raised,
          query, ipVm, ipAddr, log, seen, fetched, customised>>

----------------------------------------------------------------------------
(* Bounds of the model *)

\* at most this many sections in the configuration file
MaxDCs == 2
\* at most this many VM records returned by the engine over one run
MaxVMs == 2
\* at most this many sections of a file differ from the plain section
MaxCustom == 1
\* SpecIp: NICs of a VM, reported devices of a NIC, addresses of a device
MaxNics == 2
MaxDevices == 2
MaxIps == 2

----------------------------------------------------------------------------
(* Python values *)

None == "None"
NoOutput == <<>>
EmptyDict == <<>>

\* exceptions that leave inventory()
NoOptionError == "NoOptionError"
ValueError == "ValueError"
ConnectionError == "ConnectionError"
RequestError == "RequestError"
AttributeError == "AttributeError"
KeyError == "KeyError"

----------------------------------------------------------------------------
(* Configuration keys, lines 28-49 *)

OVIRT_IP_REGEX == "ovirt_ip_regex"
OVIRT_NIC_NAME == "ovirt_nic_name"
OVIRT_PASSWORD == "ovirt_password"
OVIRT_TAG_CONTROL == "ovirt_tag_control"
OVIRT_TAG_WORKER == "ovirt_tag_worker"
OVIRT_URL == "ovirt_url"
OVIRT_USERNAME == "ovirt_username"
OVIRT_DC == "ovirt_dc"
ANSIBLE_SSH_PK == "ansible_ssh_private_key_file"
ANSIBLE_SSH_PORT == "ansible_ssh_port"
ANSIBLE_SSH_USER == "ansible_ssh_user"
ANSIBLE_SSH_PASS == "ansible_ssh_pass"
CONSUL_DC == "consul_dc"

\* _DC_OPT_VARS, lines 54-59: the optional keys and their coercions
_DC_OPT_VARS == <<[key |-> ANSIBLE_SSH_USER, type |-> "str"],
                  [key |-> ANSIBLE_SSH_PK, type |-> "str"],
                  [key |-> ANSIBLE_SSH_PORT, type |-> "int"],
                  [key |-> ANSIBLE_SSH_PASS, type |-> "str"]>>

\* _ROLES, lines 62-65
_ROLES == ("control" :> OVIRT_TAG_CONTROL) @@ ("worker" :> OVIRT_TAG_WORKER)

DefaultIpRegex == "^(\\d+).(\\d+).(\\d+).(\\d+)$"

\* the defaults handed to ConfigParser, lines 69-74
Defaults ==
    (OVIRT_IP_REGEX :> DefaultIpRegex) @@ (OVIRT_NIC_NAME :> None)
    @@ (OVIRT_TAG_CONTROL :> "mi-control") @@ (OVIRT_TAG_WORKER :> "mi-worker")

\* ConfigParser.has_option: the section's own options, then the defaults
HasOption(opts, key) == key \in DOMAIN opts \/ key \in DOMAIN Defaults

\* ConfigParser.get: NoOptionError when neither the section nor the defaults
\* hold the key
ConfigGet(opts, key) ==
    IF key \in DOMAIN opts THEN opts[key]
    ELSE IF key \in DOMAIN Defaults THEN Defaults[key]
    ELSE NoOptionError

----------------------------------------------------------------------------
(* Sequences *)

RECURSIVE SeqsUpTo(_, _)
SeqsUpTo(S, n) ==
    IF n = 0 THEN {<<>>}
    ELSE LET shorter == SeqsUpTo(S, n - 1)
         IN shorter \cup { Append(q, x) : q \in {r \in shorter : Len(r) = n - 1}, x \in S }

Range(q) == { q[k] : k \in 1..Len(q) }

RECURSIVE Flatten(_)
Flatten(qs) == IF qs = <<>> THEN <<>> ELSE Head(qs) \o Flatten(Tail(qs))

----------------------------------------------------------------------------
(* Input sets *)

\* section names a file can hold: ordinary ones, called dc1, dc2, ... in
\* their order in the file, and two that collide with keys inventory()
\* itself writes
OrdinaryNames == <<"dc1", "dc2", "dc3">>
ReservedNames == {"_meta", "role=control"}
SectionNames == Range(OrdinaryNames) \cup ReservedNames

\* the section lists of the files: no name twice (ConfigParser merges the
\* sections of one name)
SectionLists ==
    { q \in SeqsUpTo(SectionNames, MaxDCs) :
        /\ \A a, b \in 1..Len(q) : a # b => q[a] # q[b]
        /\ \A a \in 1..Len(q) : \A n \in 1..Len(OrdinaryNames) :
              q[a] = OrdinaryNames[n] =>
                Cardinality({ b \in 1..(a - 1) : q[b] \notin ReservedNames }) = n - 1 }

\* the plain section: the mandatory keys and an ssh port
PlainOptions ==
    (OVIRT_URL :> "https://engine/api") @@ (OVIRT_USERNAME :> "admin@internal")
    @@ (OVIRT_PASSWORD :> "secret") @@ (ANSIBLE_SSH_PORT :> "22")

\* the sections of the model: the plain one, the one that forgot the
\* password, and the plain one with one more key set or the port misspelt
SectionOptions ==
    { PlainOptions,
      [k \in DOMAIN PlainOptions \ {OVIRT_PASSWORD} |-> PlainOptions[k]],
      (CONSUL_DC :> "east") @@ PlainOptions,
      (OVIRT_DC :> "Default") @@ PlainOptions,
      (OVIRT_NIC_NAME :> "eth0") @@ PlainOptions,
      (OVIRT_IP_REGEX :> "") @@ PlainOptions,
      (ANSIBLE_SSH_PORT :> "ssh") @@ PlainOptions }

NoSection == [name |-> None, opts |-> EmptyDict]

Addresses == {"10.0.0.5", "10.0.0.6", "fe80::1"}

\* the characters of a string
Chars(s) ==
    CASE s = "10.0.0.5" -> <<"1", "0", ".", "0", ".", "0", ".", "5">>
      [] s = "10.0.0.6" -> <<"1", "0", ".", "0", ".", "0", ".", "6">>
      [] s = "fe80::1" -> <<"f", "e", "8", "0", ":", ":", "1">>
      [] s = "9.9.9.9" -> <<"9", ".", "9", ".", "9", ".", "9">>
      [] s = "22" -> <<"2", "2">>
      [] s = "ssh" -> <<"s", "s", "h">>
      [] OTHER -> <<>>

Ip(a) == [address |-> a]
Device(ips) == [ips |-> ips]
Nic(n, devs) == [name |-> n, reported_devices |-> devs]
Vm(st, nics) == [status |-> [state |-> st], nics |-> nics]

\* VM records the engine can return: one that is up with an IPv4 address,
\* one that is down, one that is up with no nic_eth0 and only an IPv6 address
VMs ==
    { Vm("up", <<Nic("nic_eth0", <<Device(<<Ip("10.0.0.5")>>)>>)>>),
      Vm("down", <<Nic("nic_eth0", <<Device(<<Ip("10.0.0.6")>>)>>)>>),
      Vm("up", <<Nic("nic_eth1", <<Device(<<>>), Device(<<Ip("fe80::1")>>)>>)>>) }

----------------------------------------------------------------------------
(* re.compile and pattern.match, lines 126 and 139 *)

Atom(c, plus) == [c |-> c, plus |-> plus]

\* re.compile: the pattern as a list of atoms (a group's parentheses do not
\* change what matches)
regex_compile(r) ==
    CASE r = "" -> <<>>
      [] r = "fe" -> <<Atom("f", FALSE), Atom("e", FALSE)>>
      [] r = DefaultIpRegex ->
            <<Atom("^", FALSE), Atom("\\d", TRUE), Atom(".", FALSE), Atom("\\d", TRUE),
              Atom(".", FALSE), Atom("\\d", TRUE), Atom(".", FALSE), Atom("\\d", TRUE),
              Atom("$", FALSE)>>
      [] OTHER -> <<>>

Digits == {"0", "1", "2", "3", "4", "5", "6", "7", "8", "9"}

AtomMatches(a, ch) ==
    CASE a.c = "." -> TRUE
      [] a.c = "\\d" -> ch \in Digits
      [] OTHER -> a.c = ch

\* does pattern p, from atom i on, match s at position j (backtracking)
RECURSIVE MatchAt(_, _, _, _)
MatchAt(p, i, s, j) ==
    IF i > Len(p) THEN TRUE
    ELSE CASE p[i].c = "^" -> j = 1 /\ MatchAt(p, i + 1, s, j)
           [] p[i].c = "$" -> j = Len(s) + 1 /\ MatchAt(p, i + 1, s, j)
           [] OTHER ->
                /\ j <= Len(s)
                /\ AtomMatches(p[i], s[j])
                /\ \/ MatchAt(p, i + 1, s, j + 1)
                   \/ p[i].plus /\ MatchAt(p, i, s, j + 1)

\* pattern.match(s) is not None: a match that starts at the first character
PatternMatch(p, s) == MatchAt(p, 1, Chars(s), 1)

----------------------------------------------------------------------------
(* OVirtInventory.ip, lines 113-143 *)

\* what list-indexing code sees where the SDK handed back None
NoneNic == [name |-> None, reported_devices |-> None]

\* vm.get_nics().get(name=...): the first NIC of that name, None without one
NicsGet(nics, name) ==
    LET found == { k \in 1..Len(nics) : nics[k].name = name }
    IN IF found = {} THEN NoneNic
       ELSE nics[CHOOSE k \in found : \A m \in found : k <= m]

\* lines 133-136: the addresses of the NICs' reported devices, in order
CollectIps(nics) ==
    Flatten([k \in 1..Len(nics) |->
        Flatten([d \in 1..Len(nics[k].reported_devices) |-> nics[k].reported_devices[d].ips])])

\* lines 138-143: the first address the pattern matches, None without one
FirstMatch(pattern, ips) ==
    LET hits == { k \in 1..Len(ips) : PatternMatch(pattern, ips[k].address) }
    IN IF hits = {} THEN None
       ELSE ips[CHOOSE k \in hits : \A m \in hits : k <= m].address

\* ip(dc, vm): an address, None, or AttributeError when line 135 calls
\* get_reported_devices() on None
ip(opts, vm) ==
    LET nic_name == ConfigGet(opts, OVIRT_NIC_NAME)
        ip_regex == ConfigGet(opts, OVIRT_IP_REGEX)
        pattern == regex_compile(IF ip_regex = None THEN "" ELSE ip_regex)
        nics == IF nic_name # None
                THEN <<NicsGet(vm.nics, "nic_" \o nic_name)>>
                ELSE vm.nics
    IN IF \E k \in 1..Len(nics) : nics[k] = NoneNic
       THEN AttributeError
       ELSE FirstMatch(pattern, CollectIps(nics))

----------------------------------------------------------------------------
(* OVirtInventory.api and OVirtInventory.hosts, lines 91-111 and 145-177 *)

\* what the engine does with one connect-and-list
Responses(budget) ==
    {[kind |-> "connect_error", vms |-> <<>>], [kind |-> "query_error", vms |-> <<>>]}
    \cup { [kind |-> "ok", vms |-> q] : q \in SeqsUpTo(VMs, budget) }

\* api(dc): the first mandatory option that is missing raises; then API(...)
\* connects, which the engine may refuse
api(opts, resp) ==
    IF ConfigGet(opts, OVIRT_PASSWORD) = NoOptionError
       \/ ConfigGet(opts, OVIRT_URL) = NoOptionError
       \/ ConfigGet(opts, OVIRT_USERNAME) = NoOptionError
    THEN NoOptionError
    ELSE IF resp.kind = "connect_error" THEN ConnectionError
    ELSE None

\* lines 158-169: the query string
Query(opts, dc, tag) ==
    LET ovirt_dc == IF HasOption(opts, OVIRT_DC) THEN ConfigGet(opts, OVIRT_DC) ELSE dc
        conditions == <<"datacenter=" \o ovirt_dc>>
                      \o (IF tag # None THEN <<"tag=" \o tag>> ELSE <<>>)
    IN IF Len(conditions) = 1 THEN conditions[1]
       ELSE conditions[1] \o " and " \o conditions[2]

\* a variant of IsUp that lets every VM through
IsUp_AnyState(vm) == TRUE

\* line 172: vm.status.state == 'up'
IsUp(vm) == vm.status.state = "up"

\* lines 170-177, the loop over the VMs the query returned: the hosts
\* appended, and the exception that ended the loop if one did
RECURSIVE HostsLoop(_, _, _)
HostsLoop(opts, vms, hosts) ==
    IF vms = <<>> THEN [raised |-> None, hosts |-> hosts]
    ELSE LET vm == Head(vms)
         IN IF IsUp(vm)
            THEN LET addr == ip(opts, vm)
                 IN IF addr = AttributeError THEN [raised |-> AttributeError, hosts |-> hosts]
                    ELSE IF addr # None THEN HostsLoop(opts, Tail(vms), Append(hosts, addr))
                    ELSE HostsLoop(opts, Tail(vms), hosts)
            ELSE HostsLoop(opts, Tail(vms), hosts)

\* a variant of hosts that catches what api() and the listing raise and
\* answers with no host
hosts_Swallowing(opts, dc, tag, resp) ==
    IF api(opts, resp) # None \/ resp.kind = "query_error"
    THEN [raised |-> None, hosts |-> <<>>]
    ELSE HostsLoop(opts, resp.vms, <<>>)

\* hosts(dc, tag) against an engine that answers resp
hosts(opts, dc, tag, resp) ==
    LET handle == api(opts, resp)
    IN IF handle # None THEN [raised |-> handle, hosts |-> <<>>]
       ELSE IF resp.kind = "query_error" THEN [raised |-> RequestError, hosts |-> <<>>]
       ELSE HostsLoop(opts, resp.vms, <<>>)

----------------------------------------------------------------------------
(* OVirtInventory.inventory, lines 179-232 *)

\* d[k] = v
SetItem(d, k, v) == (k :> v) @@ d

DigitValue(ch) ==
    CASE ch = "0" -> 0 [] ch = "1" -> 1 [] ch = "2" -> 2 [] ch = "3" -> 3 [] ch = "4" -> 4
      [] ch = "5" -> 5 [] ch = "6" -> 6 [] ch = "7" -> 7 [] ch = "8" -> 8 [] ch = "9" -> 9

\* int(s) for a string of digits, ValueError otherwise
RECURSIVE DigitsToInt(_, _)
DigitsToInt(cs, acc) ==
    IF cs = <<>> THEN acc ELSE DigitsToInt(Tail(cs), acc * 10 + DigitValue(Head(cs)))

\* int(s): the number, or ValueError raised
int(s) ==
    IF Chars(s) # <<>> /\ \A k \in 1..Len(Chars(s)) : Chars(s)[k] \in Digits
    THEN [raised |-> None, value |-> DigitsToInt(Chars(s), 0)]
    ELSE [raised |-> ValueError, value |-> 0]

\* lines 195-199: a coercion of _DC_OPT_VARS applied to an option's value
Coerce(type, value) ==
    IF type = "int" THEN int(value) ELSE [raised |-> None, value |-> value]

\* lines 195-201: the datacenter group's vars, or ValueError raised
DcVars(opts, dc) ==
    LET present == { k \in 1..Len(_DC_OPT_VARS) : HasOption(opts, _DC_OPT_VARS[k].key) }
        coerced == [k \in present |->
                        Coerce(_DC_OPT_VARS[k].type, ConfigGet(opts, _DC_OPT_VARS[k].key))]
    IN IF \E k \in present : coerced[k].raised # None
       THEN [raised |-> ValueError, vars |-> EmptyDict]
       ELSE [raised |-> None,
             vars |-> SetItem([key \in { _DC_OPT_VARS[k].key : k \in present } |->
                                  coerced[CHOOSE k \in present : _DC_OPT_VARS[k].key = key].value],
                              "dc", dc)]

\* lines 225-226 on one group: data[g]['hosts'].extend(hosts)
ExtendHosts(d, g, hs) == [d EXCEPT ![g].hosts = @ \o hs]

\* a variant of SetHostvars that keeps the entry a host already has
SetHostvars_KeepingFirst(d, hs, hostvars) ==
    [d EXCEPT !["_meta"].hostvars = @ @@ [h \in Range(hs) |-> hostvars]]

\* lines 228-230: hostvars of every host, the later write over the earlier
SetHostvars(d, hs, hostvars) ==
    [d EXCEPT !["_meta"].hostvars = [h \in Range(hs) |-> hostvars] @@ @]

Init ==
    /\ datacenters \in SectionLists
    /\ roles \in { <<"control", "worker">>, <<"worker", "control">> }
    /\ pc = "build"
    /\ dcIdx = 1
    /\ roleIdx = 0
    /\ section = NoSection
    /\ data = ("_meta" :> [hostvars |-> EmptyDict])
    /\ output = NoOutput
    /\ raised = None
    /\ query = None
    /\ ipVm = Vm("down", <<>>)
    /\ ipAddr = None
    /\ log = <<>>
    /\ seen = {}
    /\ fetched = 0
    /\ customised = 0

\* lines 191-201: the loop reaches a datacenter and (over)writes its group
BeginDC ==
    /\ pc = "build"
    /\ roleIdx = 0
    /\ dcIdx <= Len(datacenters)
    /\ \E opts \in SectionOptions :
        LET dc == datacenters[dcIdx]
            dcvars == DcVars(opts, dc)
        IN /\ opts = PlainOptions \/ customised < MaxCustom
           /\ customised' = customised + (IF opts = PlainOptions THEN 0 ELSE 1)
           /\ section' = [name |-> dc, opts |-> opts]
           /\ raised' = dcvars.raised
           /\ IF dcvars.raised # None
              THEN /\ pc' = "failed"
                   /\ UNCHANGED <<roleIdx, data>>
              ELSE /\ data' = SetItem(data, dc, [hosts |-> <<>>, vars |-> dcvars.vars])
                   /\ roleIdx' = 1
                   /\ pc' = pc
    /\ UNCHANGED <<datacenters, roles, dcIdx, output, query, ipVm, ipAddr, log, seen, fetched>>

\* lines 225-230 once hosts() has answered: the dict and the exception, if
\* any, that the statements executed leave
AddHosts(d1, dc, group, hostvars, got) ==
    IF got.raised # None
    THEN [raised |-> got.raised, data |-> d1, hosts |-> <<>>]
    ELSE IF got.hosts = <<>>
    THEN [raised |-> None, data |-> d1, hosts |-> <<>>]
    ELSE IF "hostvars" \notin DOMAIN d1["_meta"]
    THEN [raised |-> KeyError, data |-> ExtendHosts(ExtendHosts(d1, group, got.hosts), dc, got.hosts),
          hosts |-> got.hosts]
    ELSE [raised |-> None,
          data |-> SetHostvars(ExtendHosts(ExtendHosts(d1, group, got.hosts), dc, got.hosts),
                               got.hosts, hostvars),
          hosts |-> got.hosts]

\* lines 203-230 with the exception that ends them, if any
RoleBody(d, dc, opts, role, resp) ==
    LET group == "role=" \o role
        tag == ConfigGet(opts, _ROLES[role])
        d1 == IF group \notin DOMAIN d THEN SetItem(d, group, [hosts |-> <<>>]) ELSE d
        consul_dc == IF HasOption(opts, CONSUL_DC) THEN ConfigGet(opts, CONSUL_DC) ELSE dc
        hostvars == [role |-> role, dc |-> dc, consul_dc |-> consul_dc]
    IN AddHosts(d1, dc, group, hostvars, hosts(opts, dc, tag, resp))

\* history: a VM record returned under a section's options: its state, what
\* ip() makes of it, and whether the NIC the section asks for is missing
Seen(opts, v) ==
    [state |-> v.status.state,
     addr |-> ip(opts, v),
     nicMissing |-> /\ ConfigGet(opts, OVIRT_NIC_NAME) # None
                    /\ \A k \in 1..Len(v.nics) :
                          v.nics[k].name # "nic_" \o ConfigGet(opts, OVIRT_NIC_NAME)]

\* history: the addresses ip() gives to the "up" VMs among vms
UpAddrs(opts, vms) ==
    { ip(opts, vms[k]) : k \in { m \in 1..Len(vms) : vms[m].status.state = "up" } }
        \ {None, AttributeError}

\* one iteration of the role loop, lines 203-230; a section without password
\* never reaches the engine, whose answers then make no difference
ProcessRole ==
    /\ pc = "build"
    /\ roleIdx >= 1
    /\ \E resp \in Responses(MaxVMs - fetched) :
       \E body \in { RoleBody(data, section.name, section.opts, roles[roleIdx], resp) } :
        LET dc == section.name
            opts == section.opts
            role == roles[roleIdx]
            handle == api(opts, resp)
        IN /\ handle # NoOptionError \/ resp.kind = "connect_error"
           /\ log' = Append(log, [dc |-> dc, role |-> role,
                                  consul_dc |-> IF CONSUL_DC \in DOMAIN opts /\ body.hosts # <<>>
                                                THEN opts[CONSUL_DC] ELSE None,
                                  resp |-> IF handle # NoOptionError THEN resp.kind ELSE None,
                                  ups |-> UpAddrs(opts, resp.vms),
                                  hosts |-> body.hosts])
           /\ seen' = seen \cup { Seen(opts, resp.vms[k]) : k \in 1..Len(resp.vms) }
           /\ fetched' = fetched + Len(resp.vms)
           /\ query' = IF handle = None
                       THEN Query(opts, dc, ConfigGet(opts, _ROLES[role])) ELSE query
           /\ data' = body.data
           /\ raised' = body.raised
           /\ IF body.raised # None
              THEN /\ pc' = "failed"
                   /\ UNCHANGED <<dcIdx, roleIdx>>
              ELSE /\ pc' = pc
                   /\ IF roleIdx = Len(roles)
                      THEN roleIdx' = 0 /\ dcIdx' = dcIdx + 1
                      ELSE roleIdx' = roleIdx + 1 /\ dcIdx' = dcIdx
    /\ UNCHANGED <<datacenters, roles, section, output, ipVm, ipAddr, customised>>

\* line 232: every datacenter done, inventory() returns data
Return ==
    /\ pc = "build"
    /\ roleIdx = 0
    /\ dcIdx > Len(datacenters)
    /\ pc' = "returned"
    /\ UNCHANGED <<datacenters, roles, dcIdx, roleIdx, section, data, output, raised,
                   query, ipVm, ipAddr, log, seen, fetched, customised>>

\* a variant of Reduce that ignores --host
Reduce_IgnoringHost(d, host) == d

\* d.get(k, {}) on a dict
DictGet(d, k) == IF k \in DOMAIN d THEN d[k] ELSE EmptyDict

\* lines 252-255: the document, or the variables of --host
Reduce(d, host) ==
    IF host # None
    THEN DictGet(DictGet(DictGet(d, "_meta"), "hostvars"), host)
    ELSE d

\* values of --host: not given, or an address (a host of some documents,
\* unknown to the others)
HostArgs == {None, "10.0.0.5"}

\* lines 252-260 of main: the JSON text is recorded as the value it denotes
Main ==
    /\ pc = "returned"
    /\ \E host \in HostArgs : output' = <<[host |-> host, printed |-> Reduce(data, host)]>>
    /\ pc' = "printed"
    /\ UNCHANGED <<datacenters, roles, dcIdx, roleIdx, section, data, raised,
                   query, ipVm, ipAddr, log, seen, fetched, customised>>

Next == BeginDC \/ ProcessRole \/ Return \/ Main

Spec == Init /\ [][Next]_vars

----------------------------------------------------------------------------
(* Vocabulary of the properties *)

Built == pc \in {"returned", "printed"}

HasHostvars == "_meta" \in DOMAIN data /\ "hostvars" \in DOMAIN data["_meta"]

\* _meta.hostvars, the empty mapping when the document has none
Hostvars == IF HasHostvars THEN data["_meta"].hostvars ELSE EmptyDict

\* the host list of group g, empty when the document has no such list
HostList(g) ==
    IF g \in DOMAIN data /\ "hosts" \in DOMAIN data[g] THEN data[g].hosts ELSE <<>>

RoleGroup(r) == "role=" \o r

\* the calls of hosts() that resolved host h
Resolving(h) == { k \in 1..Len(log) : h \in Range(log[k].hosts) }

Max(S) == CHOOSE k \in S : \A m \in S : m <= k

\* the hosts resolved for role r by the calls of the log, in order
RECURSIVE HostsOfRole(_, _)
HostsOfRole(entries, r) ==
    IF entries = <<>> THEN <<>>
    ELSE (IF Head(entries).role = r THEN Head(entries).hosts ELSE <<>>)
         \o HostsOfRole(Tail(entries), r)

\* the hosts resolved for section d by the calls of the log, in order
RECURSIVE HostsOfDC(_, _)
HostsOfDC(entries, d) ==
    IF entries = <<>> THEN <<>>
    ELSE (IF Head(entries).dc = d THEN Head(entries).hosts ELSE <<>>)
         \o HostsOfDC(Tail(entries), d)

RECURSIVE SumLen(_)
SumLen(S) ==
    IF S = {} THEN 0
    ELSE LET g == CHOOSE x \in S : TRUE IN Len(HostList(g)) + SumLen(S \ {g})

EngineFailed == \E k \in 1..Len(log) : log[k].resp \in {"connect_error", "query_error"}

ConfigFailed ==
    \/ \E k \in 1..Len(log) : log[k].resp = None
    \/ section # NoSection /\ section.opts[ANSIBLE_SSH_PORT] = "ssh"

----------------------------------------------------------------------------
(* Properties *)

\* C1: all-or-nothing. Once a configuration read or an engine call (connect
\* or listing) has failed, the run is over (no step follows, so nothing is
\* retried) and nothing was or will be printed; what is printed is printed
\* after every datacenter and role was built, each by exactly one call of
\* hosts() that the engine answered.
C1_AllOrNothing ==
    /\ (EngineFailed \/ ConfigFailed \/ raised # None) =>
            pc = "failed" /\ output = NoOutput /\ ~ENABLED Next
    /\ output # NoOutput =>
            /\ pc = "printed"
            /\ Len(log) = Len(datacenters) * Len(roles)
            /\ \A k \in 1..Len(log) :
                  /\ log[k].resp = "ok"
                  /\ log[k].dc = datacenters[((k - 1) \div Len(roles)) + 1]
                  /\ log[k].role = roles[((k - 1) % Len(roles)) + 1]

\* C1 witness: the engine refuses a call after an earlier call has put hosts
\* into the document; the run has failed with nothing printed
C1_Witness ==
    /\ pc = "failed"
    /\ raised \in {ConnectionError, RequestError}
    /\ \E k \in 1..Len(log) : log[k].hosts # <<>>
    /\ output = NoOutput

\* C2: in the returned document every host of a role group's list is in the
\* list of the datacenter it was resolved for and has its entry in
\* _meta.hostvars, and every key of _meta.hostvars is in some role group's
\* and some datacenter group's list.
C2_GroupsAndHostvarsAgree ==
    Built =>
        /\ \A k \in 1..Len(log) : \A h \in Range(log[k].hosts) :
              h \in Range(HostList(RoleGroup(log[k].role))) =>
                  /\ h \in Range(HostList(log[k].dc))
                  /\ h \in DOMAIN Hostvars
        /\ \A h \in DOMAIN Hostvars :
              /\ \E r \in Range(roles) : h \in Range(HostList(RoleGroup(r)))
              /\ \E d \in Range(datacenters) : h \in Range(HostList(d))

\* C3: an "up" VM without the interface nic_<ovirt_nic_name> gets no address
\* from ip(), no exception is raised, and the build goes on.
C3_MissingNicSkipped ==
    \A x \in seen :
        x.state = "up" /\ x.nicMissing => x.addr = None /\ raised = None /\ pc # "failed"

\* C4: every entry of every host list, and every key of _meta.hostvars, is
\* an address that a call of hosts() resolved, and every address a call
\* resolved is what ip() gives to a VM that this call's query returned in
\* state "up".
C4_OnlyUpVMs ==
    /\ \A k \in 1..Len(log) : Range(log[k].hosts) \subseteq log[k].ups
    /\ \A g \in DOMAIN data : \A h \in Range(HostList(g)) :
          \E k \in 1..Len(log) :
              h \in Range(log[k].hosts) /\ g \in {log[k].dc, RoleGroup(log[k].role)}
    /\ \A h \in DOMAIN Hostvars : Resolving(h) # {}

\* C4 witness: a document is printed with hosts in it while the engine had
\* also returned a VM that is down and has an address, which is in no list
C4_Witness ==
    /\ pc = "printed"
    /\ \E x \in seen : x.state = "down" /\ x.addr = "10.0.0.6"
    /\ \E g \in DOMAIN data : HostList(g) # <<>>
    /\ \A g \in DOMAIN data : "10.0.0.6" \notin Range(HostList(g))

\* C6: the value of every key of _meta.hostvars is {role, dc, consul_dc} of
\* the last call of hosts() that resolved the key: its role, its section
\* name, and the section's consul_dc option or else the section name.
C6_LastWriterWins ==
    \A h \in DOMAIN Hostvars :
        /\ Resolving(h) # {}
        /\ LET last == log[Max(Resolving(h))]
           IN Hostvars[h] =
                [role |-> last.role, dc |-> last.dc,
                 consul_dc |-> IF last.consul_dc = None THEN last.dc ELSE last.consul_dc]

\* C6 witness: a printed document in which a host was resolved first under
\* a section that sets consul_dc and later under a section that does not
C6_Witness ==
    /\ pc = "printed"
    /\ \E h \in DOMAIN Hostvars : \E i, j \in Resolving(h) :
          /\ i < j
          /\ j = Max(Resolving(h))
          /\ log[i].consul_dc = "east"
          /\ log[j].consul_dc = None
          /\ log[i].dc # log[j].dc

\* C7: when no call of hosts() resolved a host, the returned document has a
\* group with an empty host list for every section and, if there is a
\* section, for every role, and _meta.hostvars is there and empty; without
\* sections the document is the empty _meta.hostvars alone.
C7_EmptyInventory ==
    (Built /\ \A k \in 1..Len(log) : log[k].hosts = <<>>) =>
        /\ HasHostvars
        /\ Hostvars = EmptyDict
        /\ \A d \in Range(datacenters) :
              d \in DOMAIN data /\ "hosts" \in DOMAIN data[d] /\ data[d].hosts = <<>>
        /\ datacenters # <<>> =>
              \A r \in Range(roles) :
                  RoleGroup(r) \in DOMAIN data /\ data[RoleGroup(r)].hosts = <<>>
        /\ datacenters = <<>> => data = ("_meta" :> [hostvars |-> EmptyDict])

\* C8: with --host h the output is the entry of h in _meta.hostvars of the
\* built document, the empty mapping without one; without --host it is the
\* document.
C8_HostReduction ==
    pc = "printed" =>
        /\ Len(output) = 1
        /\ IF output[1].host = None
           THEN output[1].printed = data
           ELSE output[1].printed =
                    (IF output[1].host \in DOMAIN Hostvars
                     THEN Hostvars[output[1].host] ELSE EmptyDict)

\* C8 witness: --host names a host of the document and its variables are
\* what is printed
C8_Witness ==
    /\ pc = "printed"
    /\ output[1].host = "10.0.0.5"
    /\ "10.0.0.5" \in DOMAIN Hostvars
    /\ output[1].printed = Hostvars["10.0.0.5"]
    /\ output[1].printed # EmptyDict

\* C9: in the returned document the list of role=<r> is the concatenation,
\* in section order, of the hosts resolved for r, the list of datacenter d is
\* the concatenation, in role order, of the hosts resolved for d, and the
\* role lists hold as many entries as the datacenter lists.
C9_Concatenation ==
    Built =>
        /\ \A r \in Range(roles) :
              HostList(RoleGroup(r)) = HostsOfRole(log, r)
        /\ \A d \in Range(datacenters) :
              HostList(d) = HostsOfDC(log, d)
        /\ SumLen({ RoleGroup(r) : r \in Range(roles) }) = SumLen(Range(datacenters))

\* C10: the step that begins a datacenter changes the document at that
\* datacenter's key only: _meta, the role groups and the other datacenters'
\* groups stay as they were.
C10_BeginDCFrame ==
    [][ (pc = "build" /\ roleIdx = 0 /\ roleIdx' = 1) =>
            /\ HasHostvars => HasHostvars' /\ Hostvars' = Hostvars
            /\ \A r \in Range(roles) :
                  RoleGroup(r) \in DOMAIN data => data'[RoleGroup(r)] = data[RoleGroup(r)]
            /\ \A k \in 1..(dcIdx - 1) :
                  datacenters[k] \in DOMAIN data => data'[datacenters[k]] = data[datacenters[k]]
      ]_vars

----------------------------------------------------------------------------
(* ip() on its own: SpecIp calls it once with a VM and a section drawn from *)
(* wider sets than the engine of Spec returns                              *)

IpAddresses == {"10.0.0.5", "fe80::1"}

IpVMs ==
    LET devices == { Device(q) : q \in SeqsUpTo({ Ip(a) : a \in IpAddresses }, MaxIps) }
        nics == { Nic(n, q) : n \in {"nic_eth0", "nic_eth1"}, q \in SeqsUpTo(devices, MaxDevices) }
    IN { Vm("up", q) : q \in SeqsUpTo(nics, MaxNics) }

IpSectionOptions ==
    { f @@ g @@ PlainOptions :
        f \in {EmptyDict, (OVIRT_NIC_NAME :> "eth0")},
        g \in {EmptyDict, (OVIRT_IP_REGEX :> ""), (OVIRT_IP_REGEX :> "fe")} }

InitIp ==
    /\ datacenters = <<"dc1">>
    /\ roles = <<"control", "worker">>
    /\ pc = "ip"
    /\ dcIdx = 1
    /\ roleIdx = 1
    /\ section \in { [name |-> "dc1", opts |-> o] : o \in IpSectionOptions }
    /\ data = ("_meta" :> [hostvars |-> EmptyDict])
    /\ output = NoOutput
    /\ raised = None
    /\ query = None
    /\ ipVm \in IpVMs
    /\ ipAddr = None
    /\ log = <<>>
    /\ seen = {}
    /\ fetched = 0
    /\ customised = 0

\* line 173: ip = self.ip(dc, vm)
CallIp ==
    /\ pc = "ip"
    /\ ipAddr' = ip(section.opts, ipVm)
    /\ pc' = "ip_done"
    /\ UNCHANGED <<datacenters, roles, dcIdx, roleIdx, section, data, output, raised,
                   query, ipVm, log, seen, fetched, customised>>

NextIp == CallIp

SpecIp == InitIp /\ [][NextIp]_vars

----------------------------------------------------------------------------
(* The first-match policy, stated over positions (NIC, device, IP) *)

\* the NICs the policy enumerates: the first one named nic_<filter> when a
\* filter is set (none when there is no such NIC), otherwise all of them
CandidateNics(opts, v) ==
    LET filter == ConfigGet(opts, OVIRT_NIC_NAME)
        named == { k \in 1..Len(v.nics) : v.nics[k].name = "nic_" \o filter }
    IN IF filter = None THEN v.nics
       ELSE IF named = {} THEN <<>>
       ELSE <<v.nics[CHOOSE k \in named : \A m \in named : k <= m]>>

Positions(nics) ==
    { <<k, d, i>> \in (1..MaxNics) \X (1..MaxDevices) \X (1..MaxIps) :
        /\ k <= Len(nics)
        /\ d <= Len(nics[k].reported_devices)
        /\ i <= Len(nics[k].reported_devices[d].ips) }

Before(p, q) ==
    \/ p[1] < q[1]
    \/ p[1] = q[1] /\ p[2] < q[2]
    \/ p[1] = q[1] /\ p[2] = q[2] /\ p[3] <= q[3]

AddressAt(nics, p) == nics[p[1]].reported_devices[p[2]].ips[p[3]].address

\* the regular expression accepts a prefix of the address; the empty one
\* accepts every address
Accepts(regex, a) == regex = "" \/ PatternMatch(regex_compile(regex), a)

\* C5: ip() returns the address at the first position, in the order NIC,
\* device, IP of the candidate NICs, whose address the section's regular
\* expression accepts from its start, and None when there is no such
\* position; it raises nothing.
C5_FirstMatch ==
    pc = "ip_done" =>
        LET nics == CandidateNics(section.opts, ipVm)
            regex == ConfigGet(section.opts, OVIRT_IP_REGEX)
            hits == { p \in Positions(nics) : Accepts(regex, AddressAt(nics, p)) }
        IN ipAddr = IF hits = {} THEN None
                    ELSE AddressAt(nics, CHOOSE p \in hits : \A q \in hits : Before(p, q))

====
